---- MODULE Spec2Model ----
(***************************************************************************)
(* Model of build_mods.py: merge of mod overlays into output/, deployment  *)
(* of output/ into the game directory by symlink / junction / copy, and    *)
(* removal of the deployed entries.                                        *)
(*                                                                         *)
(* A file tree is a function from relative paths (sequences of names) to   *)
(* file contents.  Directories are the proper prefixes of the file paths.  *)
(* The bytes of the file an overlay m holds at path p are written <<m, p>>;*)
(* <<0, p>> are bytes that come from no overlay (left by the user or by an *)
(* earlier run).                                                           *)
(***************************************************************************)
EXTENDS Naturals, Sequences, FiniteSets, TLC

VARIABLES osName, builderName, mods_dir, output_dir, game_dir,
          pc, status, idx, todo, cur, avail, method,
          output0, game0, removed, builtOut

vars == <<osName, builderName, mods_dir, output_dir, game_dir,
          pc, status, idx, todo, cur, avail, method,
          output0, game0, removed, builtOut>>

(* ---------------------------- bounds ----------------------------------- *)

\* number of entries of mods/ (their index is their rank in sorted order)
MaxMods == 2

\* relative file paths an overlay may hold
BuildPaths == { <<"data", "x">>, <<"__temp__", "x">>, <<"x">>, <<"data">> }

\* relative file paths of the overlay in the deployment specification
DeployPaths == { <<"data", "x">>, <<"extra", "x">>, <<"x">> }

\* names the directory holding build_mods.py may have
BuilderNames == { "loader", "extra" }

\* names of the game directory's entries that the model tracks
GameNames == { "data", "extra", "x", "loader" }

(* ------------------------ program constants ---------------------------- *)

MANAGED_TOP_FOLDERS == {"audio", "data", "levels", "shaders", "swfs", "textures"}

\* name of the scratch directory of build_mods, output_dir / "__temp__"
temp_dir == << "__temp__" >>

(* ----------------------------- trees ----------------------------------- *)

EmptyTree == [p \in {} |-> <<0, <<>>>>]

Drop(p, n) == SubSeq(p, n + 1, Len(p))

\* d is a proper prefix of p
IsPrefix(d, p) == Len(d) < Len(p) /\ SubSeq(p, 1, Len(d)) = d

IsPrefixEq(d, p) == Len(d) <= Len(p) /\ SubSeq(p, 1, Len(d)) = d

\* the path d is a directory of tree t
IsDirIn(t, d) == \E p \in DOMAIN t : IsPrefix(d, p)

Override(t, u) ==
  [p \in (DOMAIN t) \cup (DOMAIN u) |-> IF p \in DOMAIN u THEN u[p] ELSE t[p]]

Restrict(t, S) == [p \in S |-> t[p]]

\* the tree found at path d of t, with paths relative to d
SubTree(t, d) ==
  [r \in {Drop(p, Len(d)) : p \in {q \in DOMAIN t : IsPrefixEq(d, q)}} |-> t[d \o r]]

\* tree s placed under the directory d
Graft(d, s) == [p \in {d \o r : r \in DOMAIN s} |-> s[Drop(p, Len(d))]]

\* names of the top-level entries of t (iterdir of its root)
TopLevel(t) == {p[1] : p \in DOMAIN t}

(* ------------------------- build: helpers ------------------------------ *)

AbsentOutput == [exists |-> FALSE, tree |-> EmptyTree]

\* shutil.rmtree(p) inside a tree: every file under p goes away
RmTree(t, d) == Restrict(t, {p \in DOMAIN t : ~IsPrefixEq(d, p)})

\* clear_output with a fault: creates output/ when missing but keeps its files
clear_output_keep(out) == [exists |-> TRUE, tree |-> out.tree]

\* clear_output: output/ becomes an existing empty directory
clear_output(out) == [exists |-> TRUE, tree |-> EmptyTree]

\* target_root.mkdir(parents=True, exist_ok=True) fails when a component of
\* the directory of rel is a file of dst
MkdirFails(dst, rel) ==
  \E k \in 1..(Len(rel) - 1) : SubSeq(rel, 1, k) \in DOMAIN dst

\* shutil.copy2(src_file, dst_file): a dst_file that is a directory receives
\* the file under its own name
Copy2Dest(dst, rel) ==
  IF IsDirIn(dst, rel) THEN rel \o << rel[Len(rel)] >> ELSE rel

Copy2Fails(dst, rel) == IsDirIn(dst, Copy2Dest(dst, rel))

\* copy_tree(src, dst): every file of src is copied to the mirrored path of
\* dst, overwriting; nothing is deleted
copy_tree(src, dst) ==
  IF \E rel \in DOMAIN src : MkdirFails(dst, rel) \/ Copy2Fails(dst, rel)
  THEN [ok |-> FALSE, tree |-> dst]
  ELSE [ok |-> TRUE,
        tree |-> Override(dst,
                   [q \in {Copy2Dest(dst, rel) : rel \in DOMAIN src} |->
                      src[CHOOSE rel \in DOMAIN src : Copy2Dest(dst, rel) = q]])]

\* the files of overlay number m, each with its own bytes
OverlayTree(m) == [p \in mods_dir[m].files |-> <<m, p>>]

\* extract_zip(zip_path, temp_dir): every member is written under temp_dir
extract_zip(src, dst) ==
  LET members == Graft(temp_dir, src) IN
  IF \E p \in DOMAIN members : MkdirFails(dst, p) \/ IsDirIn(dst, p)
  THEN [ok |-> FALSE, tree |-> dst]
  ELSE [ok |-> TRUE, tree |-> Override(dst, members)]

\* the elif branch of build_mods: mkdir(exist_ok=True), extract, merge, rmtree
ProcessZip(m, t) ==
  IF temp_dir \in DOMAIN t
  THEN [ok |-> FALSE, tree |-> t]
  ELSE LET ex == extract_zip(OverlayTree(m), t) IN
       IF ~ex.ok THEN ex
       ELSE LET mg == copy_tree(SubTree(ex.tree, temp_dir), ex.tree) IN
            IF ~mg.ok THEN mg
            ELSE [ok |-> TRUE, tree |-> RmTree(mg.tree, temp_dir)]

\* one iteration of the loop of build_mods over sorted(mods_dir.iterdir())
ProcessMod(m, t) ==
  CASE mods_dir[m].kind = "dir" -> copy_tree(OverlayTree(m), t)
    [] mods_dir[m].kind = "zip" -> ProcessZip(m, t)
    [] OTHER -> [ok |-> TRUE, tree |-> t]

\* build_mods: clear_output, then every entry of mods/ in sorted order
RECURSIVE BuildFrom(_, _)
BuildFrom(m, t) ==
  IF m > MaxMods THEN [ok |-> TRUE, tree |-> t]
  ELSE LET r == ProcessMod(m, t) IN
       IF r.ok THEN BuildFrom(m + 1, r.tree) ELSE r

build_mods(out) == BuildFrom(1, clear_output(out).tree)

(* ---------------------- game directory: nodes -------------------------- *)

AbsentNode == [kind |-> "absent", tree |-> EmptyTree, target |-> ""]

FileNode(c) == [kind |-> "file", tree |-> [p \in {<<>>} |-> c], target |-> ""]

DirNode(t) == [kind |-> "dir", tree |-> t, target |-> ""]

\* a symlink or a junction to output/<n>
LinkNode(k, n) == [kind |-> k, tree |-> EmptyTree, target |-> n]

\* builder_dir itself, an entry of game_dir = builder_dir.parent
BuilderNode == [kind |-> "builder", tree |-> EmptyTree, target |-> ""]

IsLink(node) == node.kind \in {"symlink", "junction"}

TargetIsDir(node, out) == out.exists /\ IsDirIn(out.tree, << node.target >>)

TargetExists(node, out) ==
  out.exists /\ (IsDirIn(out.tree, << node.target >>) \/ << node.target >> \in DOMAIN out.tree)

\* Path.exists(): follows links
PathExists(node, out) ==
  \/ node.kind \in {"file", "dir", "builder"}
  \/ IsLink(node) /\ TargetExists(node, out)

\* Path.is_symlink(): a junction is not a symlink
is_symlink(node) == node.kind = "symlink"

\* Path.is_dir(): follows links
is_dir(node, out) ==
  \/ node.kind \in {"dir", "builder"}
  \/ IsLink(node) /\ TargetIsDir(node, out)

is_windows_reparse_point(node) == osName = "nt" /\ IsLink(node)

\* _remove_existing_path with a fault: without the reparse-point test of the
\* directory branch, a junction is removed like a real directory
remove_existing_path_rmtree(node, out) ==
  IF ~PathExists(node, out) /\ ~is_symlink(node) /\ ~is_windows_reparse_point(node)
  THEN "none"
  ELSE IF is_symlink(node) THEN "unlink"
  ELSE IF is_dir(node, out) THEN "rmtree"
  ELSE "unlink"

\* _remove_existing_path: which removal primitive is applied to the node
remove_existing_path(node, out) ==
  IF ~PathExists(node, out) /\ ~is_symlink(node) /\ ~is_windows_reparse_point(node)
  THEN "none"
  ELSE IF is_symlink(node) THEN "unlink"
  ELSE IF is_dir(node, out)
       THEN IF is_windows_reparse_point(node) THEN "rmdir" ELSE "rmtree"
  ELSE "unlink"

\* output/ after the removal primitive `how` was applied to the node: rmtree
\* of builder_dir takes output/ with it, rmtree through a link empties the
\* directory it points to, every other primitive leaves output/ alone
OutputAfterRemove(how, node, out) ==
  IF how = "rmtree" /\ node.kind = "builder" THEN AbsentOutput
  ELSE IF how = "rmtree" /\ IsLink(node)
       THEN [exists |-> out.exists, tree |-> RmTree(out.tree, << node.target >>)]
  ELSE out

NodeAfterRemove(how, node) == IF how = "none" THEN node ELSE AbsentNode

NoMods == [i \in 1..MaxMods |-> [kind |-> "absent", files |-> {}]]

ModsAfterRemove(how, node) ==
  IF how = "rmtree" /\ node.kind = "builder" THEN NoMods ELSE mods_dir

(* ------------------------- _try_create_dir_link ------------------------ *)

NoAvail == [symlink |-> FALSE, junction |-> FALSE, copy |-> FALSE]

\* which mechanisms would work for this call; mklink exists only on Windows
Avails == {a \in [symlink : BOOLEAN, junction : BOOLEAN, copy : BOOLEAN] :
             a.junction => osName = "nt"}

\* _try_create_dir_link with a fault: the copy is tried before the junction
try_create_dir_link_copy_first(a, destAbsent) ==
  IF a.symlink /\ destAbsent THEN "symlink"
  ELSE IF osName # "nt" THEN "raise"
  ELSE IF a.copy /\ destAbsent THEN "copied"
  ELSE IF a.junction /\ destAbsent THEN "junction"
  ELSE "raise"

\* _try_create_dir_link: the mechanism that creates dest, or "raise"; every
\* mechanism fails on a dest that exists
try_create_dir_link(a, destAbsent) ==
  IF a.symlink /\ destAbsent THEN "symlink"
  ELSE IF osName # "nt" THEN "raise"
  ELSE IF a.junction /\ destAbsent THEN "junction"
  ELSE IF a.copy /\ destAbsent THEN "copied"
  ELSE "raise"

\* the node a mechanism leaves at dest for the source output/<item>
LinkedNode(m, item, out) ==
  CASE m = "symlink" -> LinkNode("symlink", item)
    [] m = "junction" -> LinkNode("junction", item)
    [] m = "copied" -> DirNode(SubTree(out.tree, << item >>))
    [] OTHER -> AbsentNode

\* the files reached through a node of the game directory
Reach(node, out) ==
  IF IsLink(node)
  THEN IF out.exists THEN SubTree(out.tree, << node.target >>) ELSE EmptyTree
  ELSE node.tree

(* ------------------------------ states -------------------------------- *)

\* a tree holds no file at a path that is also one of its directories
ValidFiles(F) == \A p \in F : \A q \in F : ~IsPrefix(p, q)

Overlays ==
  {[kind |-> "absent", files |-> {}], [kind |-> "other", files |-> {}]}
    \cup [kind : {"dir", "zip"}, files : {F \in SUBSET BuildPaths : ValidFiles(F)}]

\* what output/ may hold before the first run: nothing, or files of an
\* earlier run, a scratch directory of an interrupted build among them
StaleTree ==
  [p \in { <<"data", "x">>, <<"data", "old">>, <<"__temp__", "x">> } |-> <<0, p>>]

InitOutputs == {AbsentOutput, [exists |-> TRUE, tree |-> StaleTree]}

EmptyGame == [n \in GameNames |-> AbsentNode]

InitNodes(n) ==
  {AbsentNode, FileNode(<<0, << n >> >>),
   DirNode([p \in { <<"u">> } |-> <<0, << n, "u" >> >>]),
   LinkNode("symlink", n)}
    \cup (IF osName = "nt" THEN {LinkNode("junction", n)} ELSE {})

InitControl ==
  /\ pc = "idle"
  /\ status = "none"
  /\ idx = 0
  /\ todo = {}
  /\ cur = ""
  /\ avail = NoAvail
  /\ method = "none"
  /\ output0 = AbsentOutput
  /\ game0 = EmptyGame
  /\ removed = AbsentNode
  /\ builtOut = AbsentOutput

\* the merge: any overlays, a game directory that holds only builder_dir
InitBuild ==
  /\ osName = "posix"
  /\ builderName = "loader"
  /\ mods_dir \in [1..MaxMods -> Overlays]
  /\ output_dir \in InitOutputs
  /\ game_dir = [n \in GameNames |-> IF n = builderName THEN BuilderNode ELSE AbsentNode]
  /\ InitControl

\* deployment: one directory overlay, any nodes in the game directory
Init ==
  /\ osName \in {"nt", "posix"}
  /\ builderName \in BuilderNames
  /\ mods_dir \in {[i \in 1..MaxMods |->
                      IF i = 1 THEN [kind |-> "dir", files |-> F]
                      ELSE [kind |-> "absent", files |-> {}]] : F \in SUBSET DeployPaths}
  /\ output_dir \in InitOutputs
  /\ game_dir \in [GameNames -> UNION {InitNodes(n) : n \in GameNames} \cup {BuilderNode}]
  /\ \A n \in GameNames :
       /\ n = builderName => game_dir[n] = BuilderNode
       /\ (n \in BuilderNames \ {builderName} /\ n \notin {p[1] : p \in DeployPaths})
            => game_dir[n] = AbsentNode
       /\ n # builderName => game_dir[n] \in InitNodes(n)
  /\ InitControl

BuilderAlive == game_dir[builderName].kind = "builder"

(* ------------------------ actions: the merge --------------------------- *)

\* build_mods, line 166: clear_output()
StartBuild ==
  /\ pc = "idle" /\ BuilderAlive
  /\ output_dir' = clear_output(output_dir)
  /\ output0' = output_dir
  /\ pc' = "build"
  /\ idx' = 1
  /\ status' = "building"
  /\ UNCHANGED <<osName, builderName, mods_dir, game_dir, todo, cur, avail, method,
                 game0, removed, builtOut>>

\* one iteration of the loop: the merged tree and the next entry, or the
\* exception that ends the run
BuildStep(r) ==
  /\ output_dir' = [exists |-> TRUE, tree |-> r.tree]
  /\ IF r.ok
     THEN /\ idx' = idx + 1
          /\ UNCHANGED <<pc, status>>
     ELSE /\ pc' = "exit"
          /\ status' = "build_aborted"
          /\ UNCHANGED idx
  /\ UNCHANGED <<osName, builderName, mods_dir, game_dir, todo, cur, avail, method,
                 output0, game0, removed, builtOut>>

\* build_mods, lines 172-174: a directory overlay is merged into output/
MergeDir ==
  /\ pc = "build" /\ idx <= MaxMods
  /\ mods_dir[idx].kind = "dir"
  /\ BuildStep(ProcessMod(idx, output_dir.tree))

\* build_mods, lines 176-185: an archive is extracted, merged, cleaned up
MergeZip ==
  /\ pc = "build" /\ idx <= MaxMods
  /\ mods_dir[idx].kind = "zip"
  /\ BuildStep(ProcessMod(idx, output_dir.tree))

\* an entry that is neither a directory nor a .zip file, or no entry
SkipEntry ==
  /\ pc = "build" /\ idx <= MaxMods
  /\ mods_dir[idx].kind \in {"absent", "other"}
  /\ BuildStep(ProcessMod(idx, output_dir.tree))

\* the loop of build_mods is over: the build completed
BuildDone ==
  /\ pc = "build" /\ idx > MaxMods
  /\ pc' = "exit"
  /\ status' = "built"
  /\ builtOut' = output_dir
  /\ UNCHANGED <<osName, builderName, mods_dir, output_dir, game_dir, idx, todo, cur,
                 avail, method, output0, game0, removed>>

\* the process ended; the user starts the script again
Restart ==
  /\ pc = "exit" /\ BuilderAlive
  /\ pc' = "idle"
  /\ status' = "none"
  /\ idx' = 0
  /\ todo' = {}
  /\ cur' = ""
  /\ avail' = NoAvail
  /\ method' = "none"
  /\ output0' = AbsentOutput
  /\ game0' = EmptyGame
  /\ removed' = AbsentNode
  /\ UNCHANGED <<osName, builderName, mods_dir, output_dir, game_dir, builtOut>>

NextBuild == StartBuild \/ MergeDir \/ MergeZip \/ SkipEntry \/ BuildDone \/ Restart

SpecBuild == InitBuild /\ [][NextBuild]_vars

(* ---------------------- actions: deploy, undeploy ---------------------- *)

\* __main__, action "b": build_mods() as a whole, then line 98 of
\* symlink_to_game, the listing of output/
RunBuild ==
  /\ pc = "idle" /\ BuilderAlive
  /\ LET r == build_mods(output_dir)
         out == [exists |-> TRUE, tree |-> r.tree] IN
       /\ output_dir' = out
       /\ output0' = out
       /\ IF r.ok
          THEN /\ pc' = "deploy"
               /\ status' = "deploying"
               /\ todo' = TopLevel(r.tree)
          ELSE /\ pc' = "exit"
               /\ status' = "build_aborted"
               /\ todo' = {}
  /\ game0' = game_dir
  /\ UNCHANGED <<osName, builderName, mods_dir, game_dir, idx, cur, avail, method,
                 removed, builtOut>>

\* symlink_to_game, lines 98-100: the next entry of output/ in any order,
\* and _remove_existing_path(dest)
DeployRemove ==
  /\ pc = "deploy"
  /\ \E item \in todo :
       LET node == game_dir[item]
           how == remove_existing_path(node, output_dir) IN
         /\ cur' = item
         /\ todo' = todo \ {item}
         /\ removed' = node
         /\ game_dir' = [game_dir EXCEPT ![item] = NodeAfterRemove(how, node)]
         /\ output_dir' = OutputAfterRemove(how, node, output_dir)
         /\ mods_dir' = ModsAfterRemove(how, node)
  /\ pc' = "place"
  /\ avail' = NoAvail
  /\ method' = "none"
  /\ UNCHANGED <<osName, builderName, status, idx, output0, game0, builtOut>>

\* symlink_to_game, lines 102-104: item.is_dir(), _try_create_dir_link
DeployLink ==
  /\ pc = "place"
  /\ output_dir.exists /\ IsDirIn(output_dir.tree, << cur >>)
  /\ \E a \in Avails :
       LET m == try_create_dir_link(a, game_dir[cur].kind = "absent") IN
         /\ avail' = a
         /\ method' = m
         /\ IF m = "raise"
            THEN /\ pc' = "exit"
                 /\ status' = "deploy_aborted"
                 /\ UNCHANGED game_dir
            ELSE /\ pc' = "deploy"
                 /\ game_dir' = [game_dir EXCEPT ![cur] = LinkedNode(m, cur, output_dir)]
                 /\ UNCHANGED status
  /\ UNCHANGED <<osName, builderName, mods_dir, output_dir, idx, todo, cur,
                 output0, game0, removed, builtOut>>

\* symlink_to_game, lines 105-107: shutil.copy2(item, dest) onto the absent
\* dest; an item that is gone raises FileNotFoundError
DeployCopyFile ==
  /\ pc = "place"
  /\ ~(output_dir.exists /\ IsDirIn(output_dir.tree, << cur >>))
  /\ IF output_dir.exists /\ << cur >> \in DOMAIN output_dir.tree
     THEN /\ game_dir' = [game_dir EXCEPT ![cur] = FileNode(output_dir.tree[<< cur >>])]
          /\ method' = "copied file"
          /\ pc' = "deploy"
          /\ UNCHANGED status
     ELSE /\ method' = "missing"
          /\ pc' = "exit"
          /\ status' = "deploy_aborted"
          /\ UNCHANGED game_dir
  /\ UNCHANGED <<osName, builderName, mods_dir, output_dir, idx, todo, cur, avail,
                 output0, game0, removed, builtOut>>

\* the loop of symlink_to_game is over
DeployDone ==
  /\ pc = "deploy" /\ todo = {}
  /\ pc' = "exit"
  /\ status' = "deployed"
  /\ UNCHANGED <<osName, builderName, mods_dir, output_dir, game_dir, idx, todo, cur,
                 avail, method, output0, game0, removed, builtOut>>

\* undeploy_from_game, line 200 with a fault: the loop over the entries of output/
LoopItemsOfOutput == TopLevel(output_dir.tree)

\* undeploy_from_game, line 200: the names the loop visits
LoopItems == MANAGED_TOP_FOLDERS

\* undeploy_from_game, line 207 with a fault: dest.exists() alone
UndeployFindsExisting(node, out) == PathExists(node, out)

\* undeploy_from_game, line 207: dest.exists() or dest.is_symlink()
UndeployFinds(node, out) == PathExists(node, out) \/ is_symlink(node)

\* the removal primitive undeploy_from_game applies at game_dir/<n>
UndeployHow(n) ==
  IF n \in LoopItems /\ UndeployFinds(game_dir[n], output_dir)
  THEN remove_existing_path(game_dir[n], output_dir)
  ELSE "none"

\* __main__, action "d": undeploy_from_game as a whole.  builder_dir has no
\* managed name, so that the iterations do not depend on their order.
Undeploy ==
  /\ pc = "idle" /\ BuilderAlive
  /\ pc' = "exit"
  /\ output0' = output_dir
  /\ game0' = game_dir
  /\ IF ~output_dir.exists
     THEN /\ status' = "nothing_to_undeploy"
          /\ UNCHANGED <<game_dir, output_dir, mods_dir>>
     ELSE /\ status' = "undeployed"
          /\ game_dir' = [n \in GameNames |-> NodeAfterRemove(UndeployHow(n), game_dir[n])]
          /\ output_dir' =
               IF UndeployHow(builderName) = "rmtree" THEN AbsentOutput
               ELSE [exists |-> TRUE,
                     tree |-> Restrict(output_dir.tree,
                       {p \in DOMAIN output_dir.tree :
                          ~\E n \in GameNames :
                             /\ UndeployHow(n) = "rmtree" /\ IsLink(game_dir[n])
                             /\ IsPrefixEq(<< game_dir[n].target >>, p)})]
          /\ mods_dir' = IF UndeployHow(builderName) = "rmtree" THEN NoMods ELSE mods_dir
  /\ UNCHANGED <<osName, builderName, idx, todo, cur, avail, method, removed, builtOut>>

Next ==
  RunBuild \/ DeployRemove \/ DeployLink \/ DeployCopyFile \/ DeployDone \/ Undeploy \/ Restart

Spec == Init /\ [][Next]_vars

(* ------------------------ claims on the merge -------------------------- *)

\* overlay m is a directory or an archive that holds a file at path p
Contains(m, p) == mods_dir[m].kind \in {"dir", "zip"} /\ p \in mods_dir[m].files

LastWith(p) ==
  CHOOSE m \in 1..MaxMods : Contains(m, p) /\ \A k \in (m + 1)..MaxMods : ~Contains(k, p)

BuildCompleted == pc = "build" /\ idx > MaxMods

\* C1: after a completed build, every path p held by some overlay exists in
\* output/ with the bytes of the last overlay, in sorted order, that holds p
C1_LastOverlayWins ==
  BuildCompleted =>
    \A p \in BuildPaths :
      (\E m \in 1..MaxMods : Contains(m, p)) =>
        /\ p \in DOMAIN output_dir.tree
        /\ output_dir.tree[p] = <<LastWith(p), p>>

\* C2: after a completed build every file of output/ has bytes of a current
\* overlay, none of the files output/ held before, and a build that follows
\* a completed build of the same mods/ ends with the same tree
C2_NoStaleFile ==
  BuildCompleted =>
    /\ \A p \in DOMAIN output_dir.tree :
         /\ output_dir.tree[p][1] \in 1..MaxMods
         /\ Contains(output_dir.tree[p][1], output_dir.tree[p][2])
    /\ builtOut.exists => output_dir = builtOut

\* C2 witness: a build completed over an output/ that held a file which the
\* rebuilt tree does not hold with the same bytes
C2_Witness ==
  /\ BuildCompleted
  /\ output_dir.tree # EmptyTree
  /\ \E p \in DOMAIN output0.tree :
       p \notin DOMAIN output_dir.tree \/ output_dir.tree[p] # output0.tree[p]

\* C9: the scratch directory is empty when an archive is about to be
\* extracted, the archive's entries are in output/ at their own paths with
\* their own bytes once it is processed, and no output/__temp__ is left by a
\* completed build
C9_ScratchFresh ==
  /\ (pc = "build" /\ idx <= MaxMods /\ mods_dir[idx].kind = "zip")
       => ~IsDirIn(output_dir.tree, temp_dir)
  /\ (pc = "build" /\ idx > 1 /\ mods_dir[idx - 1].kind = "zip")
       => \A p \in mods_dir[idx - 1].files :
            p \in DOMAIN output_dir.tree /\ output_dir.tree[p] = <<idx - 1, p>>
  /\ BuildCompleted => ~IsDirIn(output_dir.tree, temp_dir)

(* ------------------- claims on deploy and undeploy --------------------- *)

UndeployFinished == pc = "exit" /\ status \in {"undeployed", "nothing_to_undeploy"}

ManagedNames == MANAGED_TOP_FOLDERS \cap GameNames

\* C3: undeploy_from_game leaves every entry of the game directory whose
\* name is not in MANAGED_TOP_FOLDERS as it was
C3_UndeployKeepsUnmanaged ==
  UndeployFinished =>
    \A n \in GameNames \ MANAGED_TOP_FOLDERS : game_dir[n] = game0[n]

\* C3 witness: an undeploy removed a managed entry while the game directory
\* held an entry of another name besides builder_dir
C3_Witness ==
  /\ UndeployFinished
  /\ \E n \in ManagedNames : game0[n].kind # "absent" /\ game_dir[n].kind = "absent"
  /\ \E n \in GameNames \ MANAGED_TOP_FOLDERS :
       n # builderName /\ game_dir[n].kind # "absent"

\* C4 as stated: after any completed undeploy, with or without output/, no
\* managed name is left in the game directory
C4_NoManagedNameLeft ==
  UndeployFinished => \A n \in ManagedNames : game_dir[n].kind = "absent"

\* C4 amended: without output/ undeploy removes nothing; with output/ every
\* managed name that exists or is a symlink (a broken one too) is removed,
\* and only a junction whose target is gone can be left
C4_ManagedRemovedWhenOutputExists ==
  /\ (pc = "exit" /\ status = "nothing_to_undeploy")
       => ~output0.exists /\ game_dir = game0
  /\ (pc = "exit" /\ status = "undeployed")
       => /\ output0.exists
          /\ \A n \in ManagedNames :
               /\ (PathExists(game0[n], output0) \/ game0[n].kind = "symlink")
                    => game_dir[n].kind = "absent"
               /\ game_dir[n].kind # "absent"
                    => /\ game_dir[n] = game0[n]
                       /\ game0[n].kind = "junction"
                       /\ ~TargetExists(game0[n], output0)

\* C4 witness: an undeploy removed a managed name that was a broken symlink
C4_Witness ==
  /\ pc = "exit" /\ status = "undeployed"
  /\ \E n \in ManagedNames :
       /\ game0[n].kind = "symlink" /\ ~TargetExists(game0[n], output0)
       /\ game_dir[n].kind = "absent"

\* C5: undeploy removes a node game_dir/<name> only when output/ has a
\* top-level entry of that name
C5_UndeployOnlyOutputNames ==
  UndeployFinished =>
    \A n \in GameNames :
      (game0[n].kind # "absent" /\ game_dir[n].kind = "absent")
        => n \in TopLevel(output0.tree)

\* C6: a removal applied to a symlink or a junction leaves the path absent
\* and output/, where the link points, with every file unchanged; no other
\* entry of the game directory changes
C6_RemoveLinkOnly ==
  [][ /\ (pc = "deploy" /\ pc' = "place" /\ IsLink(game_dir[cur']))
         => /\ game_dir'[cur'].kind = "absent"
            /\ output_dir' = output_dir
            /\ \A n \in GameNames \ {cur'} : game_dir'[n] = game_dir[n]
      /\ (pc = "idle" /\ pc' = "exit" /\ status' = "undeployed")
         => \A n \in GameNames :
              (IsLink(game_dir[n]) /\ game_dir'[n] # game_dir[n])
                => /\ game_dir'[n].kind = "absent"
                   /\ output_dir' = output_dir ]_vars

\* C6 witness: the deploy removed a junction whose target directory exists
C6_Witness ==
  /\ pc = "place"
  /\ removed.kind = "junction"
  /\ TargetIsDir(removed, output_dir)
  /\ game_dir[cur].kind = "absent"

LinkCalled == method \in {"symlink", "junction", "copied", "raise"}

\* the destination was created by the mechanism that method names and every
\* file of the source output/<cur> is reached through it
LinkResultRight ==
  /\ method = "symlink" => game_dir[cur].kind = "symlink"
  /\ method = "junction" => game_dir[cur].kind = "junction"
  /\ method = "copied" => game_dir[cur].kind = "dir"
  /\ Reach(game_dir[cur], output_dir) = SubTree(output_dir.tree, << cur >>)

C8_DeploySucceeds ==
  /\ (pc = "exit" /\ status = "deploy_aborted") => method = "raise"
  /\ (pc = "exit" /\ status = "deployed")
       => /\ output_dir.exists
          /\ \A n \in TopLevel(output_dir.tree) :
               Reach(game_dir[n], output_dir) = SubTree(output_dir.tree, << n >>)

InDeploy ==
  \/ pc \in {"deploy", "place"}
  \/ pc = "exit" /\ status \in {"deployed", "deploy_aborted"}

\* C10: during and after a deploy, also one that ends early, output/ is as
\* it was when the deploy began and every entry of the game directory whose
\* name is not a top-level entry of output/ is unchanged
C10_DeployFrame ==
  InDeploy =>
    /\ output_dir = output0
    /\ \A n \in GameNames \ TopLevel(output0.tree) : game_dir[n] = game0[n]

====
